---- MODULE Spec2Model ----
(***************************************************************************)
(* Model of run_marylou/extract_results.py: the ensemble result stager.    *)
(* main() -> process_ensembles() -> copy_ensemble_files(), run one or more *)
(* times against the same input root.  The file system is the only state   *)
(* that survives from one run to the next.                                 *)
(*                                                                         *)
(* File-system domain of the model: regular files and directories, no      *)
(* symbolic links; entries of a destination directory are regular files.   *)
(***************************************************************************)
EXTENDS Integers, Sequences, FiniteSets, TLC

(* ------------------------------ bounds --------------------------------- *)
MaxRuns == 2        \* invocations of the tool on the same input root
MaxFaults == 1      \* environment events (I/O errors, EOF, Ctrl-C) per behaviour

(* ------------------------------ names ---------------------------------- *)
\* directory names are character sequences, so that endswith and the
\* f-string concatenation of line 112 are computed, not assumed
OutputSuffix == <<"_","f","i","n","a","l","_","r","e","s","u","l","t","s">>
run_1 == <<"r","u","n","_","1">>
run_2 == <<"r","u","n","_","2">>

CharCode == [c \in {"1","2","_","a","e","f","i","l","n","r","s","t","u"} |->
   CASE c = "1" -> 49 [] c = "2" -> 50 [] c = "_" -> 95 [] c = "a" -> 97
     [] c = "e" -> 101 [] c = "f" -> 102 [] c = "i" -> 105 [] c = "l" -> 108
     [] c = "n" -> 110 [] c = "r" -> 114 [] c = "s" -> 115 [] c = "t" -> 116
     [] c = "u" -> 117]

\* str.endswith
EndsWith(s, suf) ==
   /\ Len(s) >= Len(suf)
   /\ SubSeq(s, Len(s) - Len(suf) + 1, Len(s)) = suf

\* line 112: f"{subdir.name}_final_results"
DestName(name) == name \o OutputSuffix

\* the entries the input root may hold
Names == {run_1, run_2, DestName(run_1), DestName(run_2),
          DestName(DestName(run_1)), DestName(DestName(run_2))}

\* lexicographic order of two names by character code (Path.__lt__)
RECURSIVE NameLess(_, _)
NameLess(a, b) ==
   IF b = <<>> THEN FALSE
   ELSE IF a = <<>> THEN TRUE
   ELSE IF CharCode[Head(a)] # CharCode[Head(b)]
        THEN CharCode[Head(a)] < CharCode[Head(b)]
        ELSE NameLess(Tail(a), Tail(b))

\* sorted(subdirs), line 108
RECURSIVE Sorted(_)
Sorted(S) ==
   IF S = {} THEN <<>>
   ELSE LET m == CHOOSE x \in S : \A y \in S \ {x} : NameLess(x, y)
        IN <<m>> \o Sorted(S \ {m})

(* ------------------------------ files ---------------------------------- *)
\* variant: the sequence file is left out of the default list
DefaultFiles_NoSequence == <<"topology.pdb", "samples.xtc">>

\* line 76
DefaultFiles == <<"topology.pdb", "samples.xtc", "sequence.fasta">>
Files == {"topology.pdb", "samples.xtc", "sequence.fasta", "notes.txt"}

\* an entry of a directory: "absent", a regular file with the named content,
\* or "subdir" (a directory)
NoFiles == [f \in Files |-> "absent"]
AbsentEntry == [kind |-> "absent", files |-> NoFiles]
FileEntry == [kind |-> "file", files |-> NoFiles]
Dir(files) == [kind |-> "dir", files |-> files]

With(pairs) == [f \in Files |-> IF f \in DOMAIN pairs THEN pairs[f] ELSE "absent"]

(* ------------------------------ strings -------------------------------- *)
\* str.strip: drop leading and trailing blanks
RECURSIVE LStrip(_)
LStrip(s) == IF s # <<>> /\ Head(s) = " " THEN LStrip(Tail(s)) ELSE s
RECURSIVE RStrip(_)
RStrip(s) == IF s # <<>> /\ s[Len(s)] = " " THEN RStrip(SubSeq(s, 1, Len(s) - 1)) ELSE s
Strip(s) == RStrip(LStrip(s))

\* str.lower
LowerChar(c) == CASE c = "Y" -> "y" [] c = "N" -> "n" [] OTHER -> c
Lower(s) == [i \in 1..Len(s) |-> LowerChar(s[i])]

\* what the operator may type at the prompt
Answers == {<<"y">>, <<" ","Y"," ">>, <<"n">>, <<"y","e","s">>, <<>>}

(* ------------------------------ state ---------------------------------- *)
VARIABLES
   argv_path,       \* sys.argv[1]: "noarg", or what the path names: "missing", "file", "dir"
   cli_files,       \* sys.argv[2:]
   fs,              \* the children of the input root: name -> entry
   pc,              \* position of the run: "main", "validate", "scan", "loop", "prompt", "copy", "exited"
   required_files,  \* process_ensembles' required_files
   subdirs,         \* sorted(subdirs)
   idx,             \* position of the candidate loop in subdirs (from 1)
   summary,         \* the summary dict of process_ensembles
   results,         \* the results dict of the running copy_ensemble_files call
   fidx,            \* position of copy_ensemble_files' loop in required_files (from 1)
   user_input,      \* the stripped, lower-cased answer to the last prompt
   exc,             \* what ended the run: the exception that left process_ensembles
   exit_status,     \* <<>> while running, <<code>> once the process has exited
   status_line,     \* the final status line printed after the summary, "" if none
   reused,          \* history: candidates whose existing destination was confirmed
   prompts,         \* history: overwrite prompts issued in this run
   run,             \* history: number of the current invocation
   faults,          \* history: environment failures so far
   fs0,             \* history: fs when the current run started
   cands1,          \* history: the candidates present before the first run
   prev             \* history: outcome of the previous run

vars == <<argv_path, cli_files, fs, pc, required_files, subdirs, idx, summary,
          results, fidx, user_input, exc, exit_status, status_line, reused,
          prompts, run, faults, fs0, cands1, prev>>

args == <<argv_path, cli_files>>
hist == <<run, fs0, cands1, prev>>

ZeroSummary == [processed |-> 0, created |-> 0, skipped |-> 0,
                total_copied |-> 0, total_missing |-> 0, total_errors |-> 0]
EmptyResults == [copied |-> <<>>, missing |-> <<>>, errors |-> <<>>]
NoExc == [type |-> "none", at |-> "", code |-> 0]

(* --------------------------- initial states ---------------------------- *)
\* what a candidate directory may hold; cand is "c1" or "c2", the content
\* that identifies the files of that candidate
SourceOptions(cand) ==
   { Dir(NoFiles),
     Dir(With([f \in {"topology.pdb", "sequence.fasta"} |-> cand])),
     Dir(With([f \in {"topology.pdb", "samples.xtc", "notes.txt"} |->
                 IF f = "samples.xtc" THEN "subdir" ELSE cand])) }

\* what may sit at a destination path before the first run
DestOptions ==
   { AbsentEntry, FileEntry, Dir(NoFiles),
     Dir(With([f \in {"topology.pdb", "notes.txt"} |-> "stale"])) }

\* the custom file lists tried: a single name, a duplicated name, two names
CustomLists ==
   { <<"topology.pdb">>, <<"topology.pdb", "topology.pdb">>,
     <<"samples.xtc", "topology.pdb">> }

InitFs ==
   { [n \in Names |->
        CASE n = run_1 -> s1
          [] n = run_2 -> s2
          [] n = DestName(run_1) -> d1
          [] n = DestName(run_2) -> d2
          [] OTHER -> AbsentEntry] :
     s1 \in {AbsentEntry} \cup SourceOptions("c1"),
     s2 \in {AbsentEntry, FileEntry, Dir(NoFiles),
             Dir(With([f \in {"topology.pdb"} |-> "c2"]))},
     d1 \in DestOptions,
     d2 \in {AbsentEntry, Dir(With([f \in {"samples.xtc"} |-> "stale"]))} }

NoPrev == [valid |-> FALSE, printed |-> FALSE, summary |-> ZeroSummary]

Init ==
   /\ argv_path \in {"noarg", "missing", "file", "dir"}
   /\ cli_files \in {<<>>} \cup CustomLists
   /\ argv_path = "noarg" => cli_files = <<>>
   /\ fs \in InitFs
   \* a path that is no directory has no children
   /\ argv_path # "dir" => fs = [n \in Names |-> AbsentEntry]
   /\ pc = "main"
   /\ required_files = <<>>
   /\ subdirs = <<>>
   /\ idx = 1
   /\ summary = ZeroSummary
   /\ results = EmptyResults
   /\ fidx = 1
   /\ user_input = <<>>
   /\ exc = NoExc
   /\ exit_status = <<>>
   /\ status_line = ""
   /\ reused = 0
   /\ prompts = 0
   /\ run = 1
   /\ faults = 0
   /\ fs0 = fs
   /\ cands1 = {n \in Names : fs[n].kind = "dir" /\ n \in {run_1, run_2}}
   /\ prev = NoPrev

(* ----------------------------- exceptions ------------------------------ *)
\* subclasses of Exception; KeyboardInterrupt and SystemExit are not
IsException(type) == type \in {"OSError", "EOFError"}

\* variant: a bare except, which also catches SystemExit
ExitCode_BareExcept(e) == 1

\* variant: an Exception is printed and the process then ends normally
ExitCode_SwallowException(e) ==
   CASE e.type = "KeyboardInterrupt" -> 1
     [] IsException(e.type) -> 0
     [] OTHER -> e.code

\* lines 178-187: the try of main around process_ensembles
ExitCode(e) ==
   CASE e.type = "KeyboardInterrupt" -> 1
     [] IsException(e.type) -> 1
     [] OTHER -> e.code

SysExit(code, at) == [type |-> "SystemExit", at |-> at, code |-> code]
Raised(type, at) == [type |-> type, at |-> at, code |-> 0]

\* the exception e leaves process_ensembles and the process exits
Leave(e) ==
   /\ exc' = e
   /\ pc' = "exited"
   /\ exit_status' = <<ExitCode(e)>>

(* ------------------------------- main ---------------------------------- *)
\* lines 160-176 and 75-76
Main ==
   /\ pc = "main"
   /\ IF argv_path = "noarg"
      THEN \* sys.exit(1) outside the try
           /\ exc' = SysExit(1, "main")
           /\ pc' = "exited"
           /\ exit_status' = <<1>>
           /\ UNCHANGED required_files
      ELSE /\ required_files' = IF Len(cli_files) > 0 THEN cli_files ELSE DefaultFiles
           /\ pc' = "validate"
           /\ UNCHANGED <<exc, exit_status>>
   /\ UNCHANGED <<args, fs, subdirs, idx, summary, results, fidx, user_input,
                  status_line, reused, prompts, faults, hist>>

\* lines 78-86
Validate ==
   /\ pc = "validate"
   /\ IF argv_path = "missing" THEN Leave(SysExit(1, "exists"))
      ELSE IF argv_path # "dir" THEN Leave(SysExit(1, "is_dir"))
      ELSE /\ pc' = "scan"
           /\ UNCHANGED <<exc, exit_status>>
   /\ UNCHANGED <<args, fs, required_files, subdirs, idx, summary, results, fidx,
                  user_input, status_line, reused, prompts, faults, hist>>

\* variant: every directory is a candidate
IsCandidate_AnyDir(entry, name) == entry.kind = "dir"

\* line 89: d.is_dir() and not d.name.endswith('_final_results')
IsCandidate(entry, name) == entry.kind = "dir" /\ ~EndsWith(name, OutputSuffix)

\* line 89: the candidates among the children of the input root
Candidates(f) == { n \in Names : IsCandidate(f[n], n) }

\* lines 89-106
Scan ==
   /\ pc = "scan"
   /\ \/ /\ Candidates(fs) = {}
         /\ Leave(SysExit(0, "scan"))
         /\ UNCHANGED <<subdirs, idx, summary, faults>>
      \/ /\ Candidates(fs) # {}
         /\ subdirs' = Sorted(Candidates(fs))
         /\ idx' = 1
         /\ summary' = ZeroSummary
         /\ pc' = "loop"
         /\ UNCHANGED <<exc, exit_status, faults>>
      \/ \* iterdir fails (the root became unreadable)
         /\ faults < MaxFaults
         /\ faults' = faults + 1
         /\ Leave(Raised("OSError", "iterdir"))
         /\ UNCHANGED <<subdirs, idx, summary>>
   /\ UNCHANGED <<args, fs, required_files, results, fidx, user_input,
                  status_line, reused, prompts, hist>>
(* --------------------------- candidate loop ---------------------------- *)
\* variant: the destination is computed once, for the first candidate
CopyTarget_First(sd, i) == DestName(sd[1])

\* lines 112-113: the destination of the candidate the loop is at
CopyTarget(sd, i) == DestName(sd[i])

\* variant: an empty directory is taken as not existing
DestExists_NonEmpty(entry) == entry.kind # "absent" /\ entry # Dir(NoFiles)

\* line 116: dest_dir.exists()
DestExists(entry) == entry.kind # "absent"

\* variant: any answer that starts with y is taken as a confirmation
Declined_YPrefix(u) == u = <<>> \/ Head(u) # "y"

\* line 119: user_input != 'y'
Declined(u) == u # <<"y">>

\* variant: continue before processed is incremented
SkipCounts_NoProcessed(s) == [s EXCEPT !.skipped = @ + 1]

\* lines 121-122: the counters of a skipped candidate
SkipCounts(s) == [s EXCEPT !.skipped = @ + 1, !.processed = @ + 1]

\* variant: the error count of a call is not added to the summary
Accumulate_NoErrors(s, r) ==
   [s EXCEPT !.total_copied = @ + Len(r.copied),
             !.total_missing = @ + Len(r.missing),
             !.processed = @ + 1]

\* lines 133-136: the counts of one copy_ensemble_files call are added
Accumulate(s, r) ==
   [s EXCEPT !.total_copied = @ + Len(r.copied),
             !.total_missing = @ + Len(r.missing),
             !.total_errors = @ + Len(r.errors),
             !.processed = @ + 1]

\* lines 108-117 and 124-127: the head of the loop body up to the prompt
\* or the creation of the destination
LoopHead ==
   /\ pc = "loop"
   /\ idx <= Len(subdirs)
   /\ LET dest == CopyTarget(subdirs, idx) IN
      \/ \* line 116: dest_dir.exists(); the prompt is printed
         /\ DestExists(fs[dest])
         /\ pc' = "prompt"
         /\ prompts' = prompts + 1
         /\ UNCHANGED <<fs, summary, results, fidx, exc, exit_status, faults>>
      \/ \* lines 125-127: mkdir succeeds
         /\ ~DestExists(fs[dest])
         /\ fs' = [fs EXCEPT ![dest] = Dir(NoFiles)]
         /\ summary' = [summary EXCEPT !.created = @ + 1]
         /\ results' = EmptyResults
         /\ fidx' = 1
         /\ pc' = "copy"
         /\ UNCHANGED <<prompts, exc, exit_status, faults>>
      \/ \* line 125: mkdir raises (read-only root, disk full)
         /\ ~DestExists(fs[dest])
         /\ faults < MaxFaults
         /\ faults' = faults + 1
         /\ Leave(Raised("OSError", "mkdir"))
         /\ UNCHANGED <<fs, summary, results, fidx, prompts>>
   /\ UNCHANGED <<args, required_files, subdirs, idx, user_input, status_line,
                  reused, hist>>

\* lines 118-123: the answer to the overwrite prompt
Prompt ==
   /\ pc = "prompt"
   /\ \/ \E answer \in Answers :
            LET u == Lower(Strip(answer)) IN
            /\ user_input' = u
            /\ IF Declined(u)
               THEN /\ summary' = SkipCounts(summary)
                    /\ idx' = idx + 1
                    /\ pc' = "loop"
                    /\ UNCHANGED <<results, fidx, reused>>
               ELSE /\ results' = EmptyResults
                    /\ fidx' = 1
                    /\ pc' = "copy"
                    /\ reused' = reused + 1
                    /\ UNCHANGED <<summary, idx>>
            /\ UNCHANGED <<exc, exit_status, faults>>
      \/ \* input() raises EOFError: standard input is closed
         /\ faults < MaxFaults
         /\ faults' = faults + 1
         /\ Leave(Raised("EOFError", "prompt"))
         /\ UNCHANGED <<user_input, summary, idx, results, fidx, reused>>
   /\ UNCHANGED <<args, fs, required_files, subdirs, status_line, prompts, hist>>

(* ------------------------- copy_ensemble_files ------------------------- *)
\* shutil.copy2 fails whenever the source is a directory or the destination
\* directory is no directory
Copy2MustFail(src, dest_entry) == src = "subdir" \/ dest_entry.kind # "dir"

\* lines 48-62: one iteration of the loop over required_files
CopyFile ==
   /\ pc = "copy"
   /\ fidx <= Len(required_files)
   /\ LET subdir == subdirs[idx]
          dest == CopyTarget(subdirs, idx)
          filename == required_files[fidx]
          source_file == fs[subdir].files[filename]
      IN
      \/ \* line 52 false, lines 61-62
         /\ source_file = "absent"
         /\ results' = [results EXCEPT !.missing = Append(@, filename)]
         /\ fidx' = fidx + 1
         /\ UNCHANGED <<fs, pc, exc, exit_status, faults>>
      \/ \* lines 54-56: copy2 succeeds
         /\ source_file # "absent"
         /\ ~Copy2MustFail(source_file, fs[dest])
         /\ fs' = [fs EXCEPT ![dest].files[filename] = source_file]
         /\ results' = [results EXCEPT !.copied = Append(@, filename)]
         /\ fidx' = fidx + 1
         /\ UNCHANGED <<pc, exc, exit_status, faults>>
      \/ \* lines 57-59: copy2 raises and the except clause records it
         /\ source_file # "absent"
         /\ \/ /\ Copy2MustFail(source_file, fs[dest])
               /\ UNCHANGED faults
            \/ /\ ~Copy2MustFail(source_file, fs[dest])
               /\ faults < MaxFaults
               /\ faults' = faults + 1
         /\ results' = [results EXCEPT !.errors = Append(@, filename)]
         /\ fidx' = fidx + 1
         /\ UNCHANGED <<fs, pc, exc, exit_status>>
      \/ \* line 52: exists() itself raises (EACCES, ENAMETOOLONG, EIO);
         \* the call is outside the try of line 53
         /\ faults < MaxFaults
         /\ faults' = faults + 1
         /\ Leave(Raised("OSError", "exists"))
         /\ UNCHANGED <<fs, results, fidx>>
   /\ UNCHANGED <<args, required_files, subdirs, idx, summary, user_input,
                  status_line, reused, prompts, hist>>

\* lines 64 and 133-136: the call returns and its counts are accumulated
FinishCopy ==
   /\ pc = "copy"
   /\ fidx > Len(required_files)
   /\ summary' = Accumulate(summary, results)
   /\ idx' = idx + 1
   /\ pc' = "loop"
   /\ UNCHANGED <<args, fs, required_files, subdirs, results, fidx, user_input,
                  exc, exit_status, status_line, reused, prompts, faults, hist>>

\* lines 150-155
StatusLine(s) ==
   IF s.total_errors > 0 THEN "errors"
   ELSE IF s.total_missing > 0 THEN "missing"
   ELSE "success"

\* lines 138-155: the summary is printed, process_ensembles and main return
Summary ==
   /\ pc = "loop"
   /\ idx > Len(subdirs)
   /\ status_line' = StatusLine(summary)
   /\ pc' = "exited"
   /\ exit_status' = <<0>>
   /\ UNCHANGED <<args, fs, required_files, subdirs, idx, summary, results, fidx,
                  user_input, exc, reused, prompts, faults, hist>>

\* Ctrl-C while process_ensembles runs
Interrupt ==
   /\ pc \in {"validate", "scan", "loop", "prompt", "copy"}
   /\ faults < MaxFaults
   /\ faults' = faults + 1
   /\ Leave(Raised("KeyboardInterrupt", pc))
   /\ UNCHANGED <<args, fs, required_files, subdirs, idx, summary, results, fidx,
                  user_input, status_line, reused, prompts, hist>>

\* the tool is invoked again with the same command line; nothing but the
\* file system survives
NextRun ==
   /\ pc = "exited"
   /\ run < MaxRuns
   /\ run' = run + 1
   /\ prev' = [valid |-> TRUE, printed |-> status_line # "", summary |-> summary]
   /\ fs0' = fs
   /\ pc' = "main"
   /\ required_files' = <<>>
   /\ subdirs' = <<>>
   /\ idx' = 1
   /\ summary' = ZeroSummary
   /\ results' = EmptyResults
   /\ fidx' = 1
   /\ user_input' = <<>>
   /\ exc' = NoExc
   /\ exit_status' = <<>>
   /\ status_line' = ""
   /\ reused' = 0
   /\ prompts' = 0
   /\ UNCHANGED <<args, fs, faults, cands1>>

Next ==
   \/ Main
   \/ Validate
   \/ Scan
   \/ LoopHead
   \/ Prompt
   \/ CopyFile
   \/ FinishCopy
   \/ Summary
   \/ Interrupt
   \/ NextRun

Spec == Init /\ [][Next]_vars

TypeOK ==
   /\ pc \in {"main", "validate", "scan", "loop", "prompt", "copy", "exited"}
   /\ exit_status \in {<<>>, <<0>>, <<1>>}
   /\ idx \in 1..(Len(subdirs) + 1)
   /\ fidx \in 1..(Len(required_files) + 1)

(* ======================================================================= *)
(*                               properties                                *)
(* ======================================================================= *)
\* the summary has been printed and the process has exited
AtSummary == pc = "exited" /\ status_line # ""

\* C1: in every run that reaches the summary, total_copied + total_missing +
\* total_errors equals the number of required filenames times the number of
\* candidates copied into (processed - skipped); a skipped candidate adds
\* nothing; and while copy_ensemble_files runs, every list entry handled so
\* far is in exactly one of copied / missing / errors, duplicates included.
C1_TotalsMatchFilesTimesCopied ==
   /\ pc = "copy" =>
         Len(results.copied) + Len(results.missing) + Len(results.errors) = fidx - 1
   /\ (pc = "loop" \/ AtSummary) =>
         summary.total_copied + summary.total_missing + summary.total_errors
            = Len(required_files) * (summary.processed - summary.skipped)

\* a summary of a run with a duplicated filename, one candidate skipped, one
\* copied into, and copy errors among the outcomes
C1_Witness ==
   /\ AtSummary
   /\ required_files = <<"topology.pdb", "topology.pdb">>
   /\ summary.skipped = 1
   /\ summary.processed = 2
   /\ summary.total_errors = 2

\* C2: a failure at the per-file level never aborts the batch: no run is
\* ended by a failure raised while a required file is examined or copied.
C2_PerFileFailureNeverAborts ==
   ~(pc = "exited" /\ exc.type = "OSError" /\ exc.at = "exists")

\* C3: when the destination exists and the normalised answer is not 'y', the
\* candidate is skipped: skipped and processed grow by one, created and the
\* three file totals stay, the file system is untouched, and the loop moves
\* to the next candidate.
C3_DeclineSkipsCandidate ==
   [][ (pc = "prompt" /\ pc' # "exited" /\ user_input' # <<"y">>) =>
          /\ summary'.skipped = summary.skipped + 1
          /\ summary'.processed = summary.processed + 1
          /\ summary'.created = summary.created
          /\ summary'.total_copied = summary.total_copied
          /\ summary'.total_missing = summary.total_missing
          /\ summary'.total_errors = summary.total_errors
          /\ fs' = fs
          /\ idx' = idx + 1
          /\ pc' = "loop" ]_vars

\* the answer 'yes' was given at the prompt of the first of two candidates,
\* it was skipped and the loop stands at the second one
C3_Witness ==
   /\ pc = "loop"
   /\ idx = 2
   /\ Len(subdirs) = 2
   /\ user_input = <<"y", "e", "s">>
   /\ summary.skipped = 1
   /\ fs = fs0

Range(seq) == {seq[i] : i \in 1..Len(seq)}

\* the run ran on an existing directory, found candidates and none of their
\* destinations existed when it started
FreshRun ==
   /\ Candidates(fs0) # {}
   /\ \A c \in Candidates(fs0) : fs0[DestName(c)].kind = "absent"

\* number of entries of list that name a file present in files
RECURSIVE CountPresent(_, _)
CountPresent(files, list) ==
   IF list = <<>> THEN 0
   ELSE (IF files[Head(list)] # "absent" THEN 1 ELSE 0) + CountPresent(files, Tail(list))

\* number of (candidate, list entry) pairs whose file is present
RECURSIVE PairsPresent(_, _, _)
PairsPresent(f, cands, list) ==
   IF cands = {} THEN 0
   ELSE LET c == CHOOSE x \in cands : TRUE
        IN CountPresent(f[c].files, list) + PairsPresent(f, cands \ {c}, list)

\* the scenario of the specification: run_1 holds topology.pdb and
\* sequence.fasta, run_2 is empty, no destination exists, default file list
Scenario ==
   /\ cli_files = <<>>
   /\ fs0[run_1] = Dir(With([f \in {"topology.pdb", "sequence.fasta"} |-> "c1"]))
   /\ fs0[run_2] = Dir(NoFiles)
   /\ fs0[DestName(run_1)].kind = "absent"
   /\ fs0[DestName(run_2)].kind = "absent"

\* number of candidates whose loop body has been entered in this run
Entered ==
   IF pc \in {"prompt", "copy"}
      \/ (pc = "exited" /\ exc.at \in {"mkdir", "prompt", "copy", "exists"})
   THEN idx ELSE idx - 1

\* C4 as stated: after a run that reached its summary, a second run that
\* reaches its summary with every prompt confirmed issued one prompt per candidate, created nothing, reports the
\* total_copied and total_missing of the first run and leaves the
\* destinations as the first run left them.
C4_SecondRunRepeatsFirst ==
   (run >= 2 /\ prev.printed /\ AtSummary /\ summary.skipped = 0) =>
      /\ prompts = Len(subdirs)
      /\ summary.created = 0
      /\ summary.total_copied = prev.summary.total_copied
      /\ summary.total_missing = prev.summary.total_missing
      /\ fs = fs0

\* C4 amended: when the previous run reached its summary, every candidate
\* reached by the next run is prompted for and none is created; when moreover
\* neither run skipped a candidate nor had a copy fail, the next run reports
\* the same total_copied and total_missing and leaves the file system as the
\* previous run left it.
C4_RepeatAfterCompleteRun ==
   /\ (run >= 2 /\ prev.printed /\ pc \in {"loop", "prompt", "copy", "exited"}) =>
         /\ summary.created = 0
         /\ prompts = Entered
   /\ (run >= 2 /\ prev.printed /\ AtSummary
         /\ prev.summary.skipped = 0 /\ prev.summary.total_errors = 0
         /\ summary.skipped = 0 /\ summary.total_errors = 0) =>
         /\ prompts = Len(subdirs)
         /\ summary.total_copied = prev.summary.total_copied
         /\ summary.total_missing = prev.summary.total_missing
         /\ fs = fs0

\* a second run at its summary after a first run that created destinations
\* and copied files, every prompt confirmed, no copy failed in either
C4_Witness ==
   /\ run = 2
   /\ AtSummary
   /\ prev.printed
   /\ prev.summary.created = 2
   /\ prev.summary.skipped = 0 /\ prev.summary.total_errors = 0
   /\ summary.skipped = 0 /\ summary.total_errors = 0
   /\ summary.total_copied >= 2
   /\ prompts = 2

\* C5: a directory whose name ends with '_final_results' is never a
\* candidate or a copy source in any run, no directory whose name ends with
\* '_final_results_final_results' comes to exist, and every run that scans
\* finds the candidates that were there before the first run.
C5_OutputDirsNeverCandidates ==
   /\ \A i \in 1..Len(subdirs) : ~EndsWith(subdirs[i], OutputSuffix)
   /\ \A n \in Names : EndsWith(n, DestName(OutputSuffix)) => fs[n].kind = "absent"
   /\ pc \in {"loop", "prompt", "copy"} => Range(subdirs) = cands1
   /\ Candidates(fs) = cands1

\* a later run, past its scan, with an output directory of an earlier run
\* in the input root
C5_Witness ==
   /\ run = 2
   /\ pc = "loop"
   /\ Len(subdirs) = 2
   /\ fs[DestName(run_1)].kind = "dir"
   /\ prev.summary.created >= 1

\* C6: at the summary of a run that found no destination beforehand and had
\* no copy fail, every candidate has a destination directory holding exactly
\* the required files present in the candidate, total_copied is the number
\* of (candidate, list entry) pairs whose file is present, total_missing the
\* number of the others, and created = processed = number of candidates; in
\* the scenario of the specification copied = 2, missing = 4, errors = 0 and
\* run_2_final_results is created empty.
C6_FreshRunCounts ==
   (AtSummary /\ FreshRun /\ summary.total_errors = 0) =>
      /\ \A c \in Candidates(fs0) :
            /\ fs[DestName(c)].kind = "dir"
            /\ \A f \in Files :
                  fs[DestName(c)].files[f] =
                     (IF f \in Range(required_files) THEN fs0[c].files[f] ELSE "absent")
      /\ summary.total_copied = PairsPresent(fs0, Candidates(fs0), required_files)
      /\ summary.total_missing =
            Len(required_files) * Cardinality(Candidates(fs0)) - summary.total_copied
      /\ summary.created = Cardinality(Candidates(fs0))
      /\ summary.processed = Cardinality(Candidates(fs0))
      /\ Scenario =>
            /\ summary.total_copied = 2
            /\ summary.total_missing = 4
            /\ summary.total_errors = 0
            /\ fs[DestName(run_2)] = Dir(NoFiles)
            /\ fs[DestName(run_1)] =
                  Dir(With([f \in {"topology.pdb", "sequence.fasta"} |-> "c1"]))

\* the summary of the first run on the scenario of the specification
C6_Witness ==
   /\ run = 1
   /\ AtSummary
   /\ Scenario
   /\ summary.total_errors = 0
   /\ fs[DestName(run_2)] = Dir(NoFiles)

\* C7: the exit status is 1 exactly when the path argument is absent, the
\* path is missing or no directory, the run is interrupted, or an exception
\* leaves process_ensembles; every other run exits 0, a run without
\* candidates and a run whose summary reports missing files or errors
\* included.
C7_ExitStatusCauses ==
   /\ pc # "exited" => exit_status = <<>>
   /\ pc = "exited" =>
         /\ exit_status \in {<<0>>, <<1>>}
         /\ exit_status = <<1>> <=>
               \/ argv_path \in {"noarg", "missing", "file"}
               \/ exc.type \in {"KeyboardInterrupt", "OSError", "EOFError"}
         /\ status_line # "" => exit_status = <<0>>
         /\ (argv_path = "dir" /\ exc.type = "SystemExit") =>
               exit_status = <<0>> /\ Candidates(fs) = {}

\* a run whose summary reports copy errors has exited
C7_Witness ==
   /\ pc = "exited"
   /\ status_line = "errors"
   /\ summary.total_errors >= 1
   /\ exit_status = <<0>>

\* C8: when the creation of the destination of candidate k fails or the
\* prompt for it meets end of input, the process exits with status 1, the
\* summary is not printed, candidate k and the candidates after it are
\* neither created nor copied into, no later prompt is issued, and what was
\* produced for the candidates before k stays.
C8_UncaughtFailureIsFatal ==
   (pc = "exited" /\ exc.type \in {"OSError", "EOFError"}
                  /\ exc.at \in {"mkdir", "prompt"}) =>
      /\ exit_status = <<1>>
      /\ status_line = ""
      /\ summary.processed = idx - 1
      /\ prompts <= idx
      /\ \A j \in idx..Len(subdirs) :
            fs[DestName(subdirs[j])] = fs0[DestName(subdirs[j])]
      /\ \A j \in 1..(idx - 1) :
            LET d == DestName(subdirs[j]) IN
            /\ fs[d].kind # "absent"
            /\ fs0[d].kind = "absent" => fs[d].kind = "dir"
            /\ \A f \in Files :
                  fs[d].files[f] \in {fs0[d].files[f], fs[subdirs[j]].files[f]}
      /\ summary.created =
            Cardinality({j \in 1..(idx - 1) : fs0[DestName(subdirs[j])].kind = "absent"})

\* the creation of the second destination failed after the first candidate
\* had been created and copied into
C8_Witness ==
   /\ pc = "exited"
   /\ exc.at = "mkdir"
   /\ idx = 2
   /\ Len(subdirs) = 2
   /\ summary.created = 1
   /\ summary.total_copied >= 1
   /\ fs[DestName(run_1)].files["topology.pdb"] = "c1"
   /\ fs[DestName(run_2)].kind = "absent"

\* C9 as stated: in every state of the candidate loop
\* processed = created + skipped + reused.
C9_ProcessedIsSumEverywhere ==
   pc \in {"loop", "prompt", "copy"} =>
      summary.processed = summary.created + summary.skipped + reused

\* C9 amended: processed = created + skipped + reused at the head of every
\* iteration, at the prompt and at the summary, and is one less while the
\* files of a candidate are copied (created or reused is counted before the
\* copy, processed after it); created counts exactly the destinations that
\* did not exist when the run started and exist now, every prompt answered
\* counts as skipped or reused; at the summary processed is the number of
\* candidates found by the scan.
C9_CountersAtIterationBoundaries ==
   /\ (pc \in {"loop", "prompt"} \/ AtSummary) =>
         summary.processed = summary.created + summary.skipped + reused
   /\ pc = "copy" =>
         summary.processed + 1 = summary.created + summary.skipped + reused
   /\ pc \in {"loop", "prompt", "copy"} =>
         /\ summary.created =
               Cardinality({j \in 1..Len(subdirs) :
                              /\ fs0[DestName(subdirs[j])].kind = "absent"
                              /\ fs[DestName(subdirs[j])].kind # "absent"})
         /\ summary.skipped + reused = (IF pc = "prompt" THEN prompts - 1 ELSE prompts)
   /\ AtSummary =>
         /\ summary.processed = Len(subdirs)
         /\ Len(subdirs) = Cardinality(Candidates(fs0))

\* a summary after one candidate was created and one existing destination
\* was confirmed
C9_Witness ==
   /\ AtSummary
   /\ summary.processed = 2
   /\ summary.created = 1
   /\ reused = 1
   /\ summary.skipped = 0

====
